---- MODULE Spec2Model ----
(***************************************************************************)
(* The reverse (sampling) process of nano-diffusion: sample.py's p_sample, *)
(* p_sample_loop and sample, and the timestep draw of train.py's training  *)
(* loop.                                                                   *)
(*                                                                         *)
(* Tensors are sequences of per-example values (batch dimension only, one  *)
(* pixel per example).  A value is an extended real: a finite fixed-point  *)
(* number in units of 1/Scale, an infinity or NaN, with IEEE-754 rules for *)
(* the non-finite ones.  Finite arithmetic rounds to the nearest unit.     *)
(***************************************************************************)
EXTENDS Integers, Sequences, FiniteSets, TLC

\* ------------------------------------------------------------------ bounds
\* largest horizon `timesteps` a schedule is built with
MaxT == 3
\* batch size of a sampling run (shape[0])
BatchSize == 2
\* fixed-point unit: a finite value v stands for v / Scale
Scale == 10000

\* ------------------------------------------------------- extended reals
Fin(n) == [k |-> "fin", v |-> n]
NaN == [k |-> "nan", v |-> 0]
PosInf == [k |-> "inf", v |-> 1]
NegInf == [k |-> "inf", v |-> -1]

IsFin(a) == a.k = "fin"
IsNaN(a) == a.k = "nan"
IsInf(a) == a.k = "inf"

Sign(n) == IF n > 0 THEN 1 ELSE IF n < 0 THEN -1 ELSE 0

\* the sign of an extended real (0 for zero and NaN)
SignOf(a) == IF IsNaN(a) THEN 0 ELSE Sign(a.v)

InfOf(s) == IF s > 0 THEN PosInf ELSE NegInf

\* n / d rounded to the nearest integer, d > 0
RoundDiv(n, d) == (2 * n + d) \div (2 * d)

RECURSIVE SqrtSearch(_, _, _)
\* the largest r in lo..hi with r * r <= n
SqrtSearch(n, lo, hi) ==
    IF lo >= hi THEN lo
    ELSE LET mid == (lo + hi + 1) \div 2
         IN IF mid * mid <= n THEN SqrtSearch(n, mid, hi)
            ELSE SqrtSearch(n, lo, mid - 1)

\* floor(sqrt(n)); roots of 32-bit integers are at most 46340
ISqrt(n) == SqrtSearch(n, 0, IF n > 46340 THEN 46340 ELSE n)

\* a + b
FAdd(a, b) ==
    IF IsNaN(a) \/ IsNaN(b) THEN NaN
    ELSE IF IsInf(a) /\ IsInf(b) THEN (IF a.v = b.v THEN a ELSE NaN)
    ELSE IF IsInf(a) THEN a
    ELSE IF IsInf(b) THEN b
    ELSE Fin(a.v + b.v)

FNeg(a) == IF IsNaN(a) THEN NaN ELSE [k |-> a.k, v |-> -a.v]

\* a - b
FSub(a, b) == FAdd(a, FNeg(b))

\* a * b
FMul(a, b) ==
    IF IsNaN(a) \/ IsNaN(b) THEN NaN
    ELSE IF IsInf(a) \/ IsInf(b)
         THEN (IF SignOf(a) * SignOf(b) = 0 THEN NaN
               ELSE InfOf(SignOf(a) * SignOf(b)))
    ELSE Fin(RoundDiv(a.v * b.v, Scale))

\* a / b
FDiv(a, b) ==
    IF IsNaN(a) \/ IsNaN(b) THEN NaN
    ELSE IF IsInf(a) THEN (IF IsInf(b) THEN NaN
                           ELSE InfOf(a.v * (IF b.v < 0 THEN -1 ELSE 1)))
    ELSE IF IsInf(b) THEN Fin(0)
    ELSE IF b.v = 0 THEN (IF a.v = 0 THEN NaN ELSE InfOf(a.v))
    ELSE IF b.v > 0 THEN Fin(RoundDiv(a.v * Scale, b.v))
    ELSE Fin(RoundDiv(-(a.v * Scale), -b.v))

\* torch.sqrt
FSqrt(a) ==
    IF IsNaN(a) THEN NaN
    ELSE IF IsInf(a) THEN (IF a.v > 0 THEN PosInf ELSE NaN)
    ELSE IF a.v < 0 THEN NaN
    ELSE Fin(ISqrt(a.v * Scale))

\* Tensor.clip(lo, hi) on one value: NaN stays NaN
FClip(a, lo, hi) ==
    IF IsNaN(a) THEN NaN
    ELSE IF IsInf(a) THEN (IF a.v > 0 THEN Fin(hi) ELSE Fin(lo))
    ELSE IF a.v < lo THEN Fin(lo)
    ELSE IF a.v > hi THEN Fin(hi)
    ELSE a

\* ---------------------------------------------------------------- tensors
Max2(m, n) == IF m >= n THEN m ELSE n

\* torch.full((n,), v)
Full(n, v) == [k \in 1..n |-> v]

\* whether batch lengths la and lb broadcast against each other
Broadcastable(la, lb) == la = lb \/ la = 1 \/ lb = 1

\* the value of tensor a at position k of a broadcast result
At(a, k) == IF Len(a) = 1 THEN a[1] ELSE a[k]

TAdd(a, b) == [k \in 1..Max2(Len(a), Len(b)) |-> FAdd(At(a, k), At(b, k))]
TSub(a, b) == [k \in 1..Max2(Len(a), Len(b)) |-> FSub(At(a, k), At(b, k))]
TMul(a, b) == [k \in 1..Max2(Len(a), Len(b)) |-> FMul(At(a, k), At(b, k))]
TDiv(a, b) == [k \in 1..Max2(Len(a), Len(b)) |-> FDiv(At(a, k), At(b, k))]
TSqrt(a) == [k \in 1..Len(a) |-> FSqrt(a[k])]
TClip(a, lo, hi) == [k \in 1..Len(a) |-> FClip(a[k], lo, hi)]

\* --------------------------------------------------------------- schedule
\* linear beta schedule: betas[i] = 0.1 * (i + 1) for i in 0..T-1
\* (the concrete scenario betas = [0.1, 0.2, 0.3, 0.4])
linear_beta_schedule(T) == [k \in 1..T |-> Fin((k * Scale) \div 10)]

RECURSIVE CumProd(_, _)
\* the cumulative product of the first n entries of a
CumProd(a, n) == IF n = 1 THEN a[1] ELSE FMul(CumProd(a, n - 1), a[n])

\* The schedule built once for horizon T: every derived sequence is a function
\* of betas alone.
create_diffusion_config(T) ==
    LET One == Fin(Scale)
        betas == linear_beta_schedule(T)
        alphas == [k \in 1..T |-> FSub(One, betas[k])]
        alphas_cumprod == [k \in 1..T |-> CumProd(alphas, k)]
        alphas_cumprod_prev ==
            [k \in 1..T |-> IF k = 1 THEN One ELSE alphas_cumprod[k - 1]]
    IN [timesteps |-> T,
        betas |-> betas,
        alphas_cumprod |-> alphas_cumprod,
        sqrt_recip_alphas |-> [k \in 1..T |-> FDiv(One, FSqrt(alphas[k]))],
        sqrt_alphas_cumprod |-> [k \in 1..T |-> FSqrt(alphas_cumprod[k])],
        sqrt_one_minus_alphas_cumprod |->
            [k \in 1..T |-> FSqrt(FSub(One, alphas_cumprod[k]))],
        posterior_variance |->
            [k \in 1..T |->
                FDiv(FMul(betas[k], FSub(One, alphas_cumprod_prev[k])),
                     FSub(One, alphas_cumprod[k]))]]

\* extract(a, t, x_shape): the per-example gather a[t[b]], shaped (batch, 1, ..., 1).
\* Timestep index i is entry i + 1 of the 1-based sequence a.
extract(a, t) == [k \in 1..Len(t) |-> a[t[k] + 1]]

\* ------------------------------------------------------------ randomness
\* the pool a Gaussian draw takes its values from: -1.2, 0.3, 1.6
NoiseVals == << -((6 * Scale) \div 5), (3 * Scale) \div 10, (8 * Scale) \div 5 >>

\* the outcomes of the random number generator that a draw picks among
Seeds == {0, 1}

\* torch.randn of batch n, as drawn under outcome s
randn(n, s) == [k \in 1..n |-> Fin(NoiseVals[((s + k) % Len(NoiseVals)) + 1])]

\* randint with high taken as inclusive
randint_inclusive(low, high, n) == [1..n -> low..high]

\* torch.randint(low, high, (n,)): the batches it can return, high exclusive
randint(low, high, n) == [1..n -> low..(high - 1)]

\* ------------------------------------------------------------ exceptions
NoExc == [type |-> "none", cause |-> "none"]
Exc(type) == [type |-> type, cause |-> "none"]

\* --------------------------------------------------- the model (collaborator)
\* Deterministic stub noise predictors.  "zero" always predicts zero noise,
\* "echo" predicts its input; the others predict zero except at timestep `at`,
\* where they return NaN or +inf for the first example, a tensor of batch 1, a
\* tensor of a batch one larger than the input's, or raise.
ModelKindsAt == {"nan", "inf", "bcast", "shape", "raise"}

\* What model.parameters() gives: "some" (a module with at least one
\* parameter, as a Unet), "none" (a module without parameters) or "absent" (a
\* callable that has no parameters attribute, as a plain function).
ParamKinds == {"some", "none", "absent"}

Models(T) ==
    {[kind |-> kd, at |-> 0, params |-> pk] :
        kd \in {"zero", "echo"}, pk \in ParamKinds}
    \cup {[kind |-> kd, at |-> a, params |-> pk] :
            kd \in ModelKindsAt, a \in 0..(T - 1), pk \in ParamKinds}

\* the models an optimizer can be built for and trained: modules with parameters
TrainableModels(T) == {m \in Models(T) : m.params = "some"}

Ret(v) == [raised |-> FALSE, exc |-> NoExc, value |-> v]
Raise(e) == [raised |-> TRUE, exc |-> e, value |-> << >>]

\* device = next(model.parameters()).device
model_device(m) ==
    CASE m.params = "some" -> Ret("device")
      [] m.params = "none" -> Raise(Exc("StopIteration"))
      [] OTHER -> Raise(Exc("AttributeError"))

\* model(x, t)
ModelApply(m, x, t) ==
    LET n == Len(x)
        zeros == Full(n, Fin(0))
    IN CASE m.kind = "zero" -> Ret(zeros)
         [] m.kind = "echo" -> Ret(x)
         [] t[1] # m.at -> Ret(zeros)
         [] m.kind = "nan" -> Ret([k \in 1..n |-> IF k = 1 THEN NaN ELSE Fin(0)])
         [] m.kind = "inf" -> Ret([k \in 1..n |-> IF k = 1 THEN PosInf ELSE Fin(0)])
         [] m.kind = "bcast" -> Ret(Full(1, Fin(Scale \div 2)))
         [] m.kind = "shape" -> Ret(Full(n + 1, Fin(0)))
         [] OTHER -> Raise(Exc("ModelError"))

\* ---------------------------------------------------------------- p_sample
\* a terminal test that never holds: noise is added at every step
TerminalStep_never(t_index) == FALSE

\* `if t_index == 0`
TerminalStep(t_index) == t_index = 0

\* the mean with the division applied to the whole difference:
\* sqrt_recip_alphas_t * ((x - betas_t * pred) / sqrt_one_minus_alphas_cumprod_t)
model_mean_misparenthesised(x, pred, t, cfg) ==
    TMul(extract(cfg.sqrt_recip_alphas, t),
         TDiv(TSub(x, TMul(extract(cfg.betas, t), pred)),
              extract(cfg.sqrt_one_minus_alphas_cumprod, t)))

\* Equation 11: sqrt_recip_alphas_t * (x - betas_t * pred / sqrt_one_minus_alphas_cumprod_t)
model_mean(x, pred, t, cfg) ==
    LET betas_t == extract(cfg.betas, t)
        sqrt_one_minus_alphas_cumprod_t ==
            extract(cfg.sqrt_one_minus_alphas_cumprod, t)
        sqrt_recip_alphas_t == extract(cfg.sqrt_recip_alphas, t)
    IN TMul(sqrt_recip_alphas_t,
            TSub(x, TDiv(TMul(betas_t, pred), sqrt_one_minus_alphas_cumprod_t)))

\* p_sample(model, x, t, t_index, config) with s the outcome of the random number
\* generator, read only if noise is drawn.  The result records what the call did:
\*   raised, exc   whether an exception left the call, and which
\*   value         the returned tensor
\*   calls         the model calls made, in order, each with what it returned
\*   draws         the noise tensors drawn, in order
\*   config        the schedule object (passed by reference) as the call leaves it
\* a p_sample that clamps the gathered beta in place
config_after_p_sample_clamped(cfg, t) == [cfg EXCEPT !.betas[t[1] + 1] = Fin(0)]

\* p_sample only reads config: extract gathers from its sequences and nothing
\* assigns to them.
config_after_p_sample(cfg, t) == cfg

p_sample(m, x, t, t_index, cfg, s) ==
    LET call == ModelApply(m, x, t)
        calls == << [x |-> x, t |-> t, ret |-> call] >>
        base == [raised |-> FALSE, exc |-> NoExc, value |-> << >>,
                 calls |-> calls, draws |-> << >>,
                 config |-> config_after_p_sample(cfg, t)]
    IN IF call.raised
       THEN [base EXCEPT !.raised = TRUE, !.exc = call.exc]
       ELSE IF ~Broadcastable(Len(t), Len(call.value))
       THEN [base EXCEPT !.raised = TRUE, !.exc = Exc("RuntimeError")]
       ELSE LET mean == model_mean(x, call.value, t, cfg)
            IN IF TerminalStep(t_index)
               THEN [base EXCEPT !.value = mean]
               ELSE LET posterior_variance_t == extract(cfg.posterior_variance, t)
                        noise == randn(Len(x), s)
                    IN [base EXCEPT
                          !.value = TAdd(mean, TMul(TSqrt(posterior_variance_t), noise)),
                          !.draws = << noise >>]

\* ----------------------------------------------------------- p_sample_loop
\* range(0, T) without reversed
LoopIndices_ascending(T) == [k \in 1..T |-> k - 1]

\* reversed(range(0, T)): the loop's indices in order
LoopIndices(T) == [k \in 1..T |-> T - k]

\* The caller's view of a run and the run's locals:
\*   pc       "idle" (not called), "loop", "returned" or "raised"
\*   b        shape[0]
\*   k        position in LoopIndices of the next iteration
\*   img      the current state tensor
\*   imgs     the local trajectory list
\*   result   the value the caller received (<< >>: none)
\*   exc      the exception the caller received
\*   noise0   the initial noise drawn
\*   steps    one record per iteration executed: its index i, the arguments
\*            t, t_index and x of p_sample, what p_sample did (raised, exc,
\*            calls, draws), the value it returned (raw) and the element
\*            appended to the trajectory (out)
NoRun == [pc |-> "idle", b |-> 0, k |-> 0, img |-> << >>, imgs |-> << >>,
          result |-> << >>, exc |-> NoExc, noise0 |-> << >>, steps |-> << >>]

\* a handler that wraps what leaves p_sample in a SamplingFailure
Propagate_wrapped(e) == [type |-> "SamplingFailure", cause |-> e.type]

\* the exception that reaches the caller when e leaves p_sample: there is no
\* handler between the call and the caller
Propagate(e) == e

\* the run once p_sample_loop returns imgs
Return(st) == [st EXCEPT !.pc = "returned", !.result = st.imgs]

\* a loop that hands the caller the trajectory accumulated before the failure
Unwind_partial(st, e) ==
    [st EXCEPT !.pc = "raised", !.exc = e, !.result = st.imgs]

\* the run once exception e leaves p_sample_loop: the locals are gone and the
\* caller receives no value
Unwind(st, e) ==
    [st EXCEPT !.pc = "raised", !.exc = Propagate(e), !.img = << >>,
               !.imgs = << >>, !.result = << >>]

\* a loop body without the clip
clip_none(x) == x

\* `.clip(-1, 1)` of the loop body
clip(x) == TClip(x, -Scale, Scale)

\* a trajectory list that is not seeded with the initial noise
p_sample_loop_begin_unseeded(old, m, b, T, s) ==
    LET dev == model_device(m)
        img == randn(b, s)
        st == [NoRun EXCEPT !.pc = "loop", !.b = b, !.k = 1, !.img = img,
                            !.imgs = << >>, !.noise0 = img]
    IN IF dev.raised
       THEN [NoRun EXCEPT !.pc = "raised", !.b = b, !.exc = dev.exc]
       ELSE IF T = 0 THEN [st EXCEPT !.pc = "returned"] ELSE st

\* a trajectory list that outlives the call (a mutable default argument): the
\* new run appends to what the previous one returned
p_sample_loop_begin_leaky(old, m, b, T, s) ==
    LET dev == model_device(m)
        img == randn(b, s)
        st == [NoRun EXCEPT !.pc = "loop", !.b = b, !.k = 1, !.img = img,
                            !.imgs = Append(old.result, img), !.noise0 = img]
    IN IF dev.raised
       THEN [NoRun EXCEPT !.pc = "raised", !.b = b, !.exc = dev.exc]
       ELSE IF T = 0 THEN [st EXCEPT !.pc = "returned", !.result = st.imgs]
       ELSE st

\* lines 37-42: take the device of the model's first parameter, which raises
\* if the model has none, before anything is drawn; then draw the initial noise
\* and seed the trajectory with it.  old is the caller's view of its previous
\* run, which a new call does not read.
p_sample_loop_begin(old, m, b, T, s) ==
    LET dev == model_device(m)
        img == randn(b, s)
        st == [NoRun EXCEPT !.pc = "loop", !.b = b, !.k = 1, !.img = img,
                            !.imgs = << img >>, !.noise0 = img]
    IN IF dev.raised
       THEN Unwind([NoRun EXCEPT !.b = b], dev.exc)
       ELSE IF Len(LoopIndices(T)) = 0 THEN Return(st) ELSE st

\* one iteration of the loop, lines 44-53, and the return after the last one
p_sample_loop_iter(st, m, cfg, s) ==
    LET T == cfg.timesteps
        i == LoopIndices(T)[st.k]
        t == Full(st.b, i)
        ps == p_sample(m, st.img, t, i, cfg, s)
        img == clip(ps.value)
        step == [i |-> i, t |-> t, t_index |-> i, x |-> st.img,
                 raised |-> ps.raised, exc |-> ps.exc, calls |-> ps.calls,
                 draws |-> ps.draws, raw |-> ps.value,
                 out |-> IF ps.raised THEN << >> ELSE img]
        logged == [st EXCEPT !.steps = Append(@, step)]
    IN IF ps.raised
       THEN Unwind(logged, ps.exc)
       ELSE LET next == [logged EXCEPT !.img = img, !.imgs = Append(@, img),
                                       !.k = @ + 1]
            IN IF st.k = Len(LoopIndices(T)) THEN Return(next) ELSE next

\* ------------------------------------------------------------------ state
VARIABLES
    timesteps,  \* the horizon the schedule is built with
    config,     \* the schedule, shared by every run
    model,      \* the noise predictor
    run,        \* the sampling runs
    train_t,    \* the timestep batch of the latest training step (<< >>: none)
    train_pc    \* where the training loop's iteration is: "draw" or "step"

vars == << timesteps, config, model, run, train_t, train_pc >>

Runs == {1, 2}

Init ==
    /\ timesteps \in 1..MaxT
    /\ config = create_diffusion_config(timesteps)
    /\ model \in Models(timesteps)
    /\ run = [r \in Runs |-> NoRun]
    /\ train_t = << >>
    /\ train_pc = "draw"

\* sample(model, image_size, config, batch_size, channels): a caller starts run r
\* (the training script does so between two of its iterations)
Sample(r) ==
    /\ run[r].pc # "loop"
    /\ train_pc = "draw"
    /\ \E s \in Seeds :
         run' = [run EXCEPT ![r] =
                    p_sample_loop_begin(run[r], model, BatchSize,
                                        config.timesteps, s)]
    /\ UNCHANGED << timesteps, config, model, train_t, train_pc >>

\* run r executes one iteration of p_sample_loop
Iterate(r) ==
    /\ run[r].pc = "loop"
    /\ \E s \in Seeds :
         LET i == LoopIndices(config.timesteps)[run[r].k]
             ps == p_sample(model, run[r].img, Full(run[r].b, i), i, config, s)
         IN /\ run' = [run EXCEPT ![r] = p_sample_loop_iter(run[r], model, config, s)]
            /\ config' = ps.config
    /\ UNCHANGED << timesteps, model, train_t, train_pc >>

\* a training iteration, first half: t = torch.randint(0, timesteps, (batch_size,))
\* is drawn and handed to p_losses.  The trajectories sampled in the previous
\* iteration were reduced to their last element and saved there (lines 123-141):
\* none is held any more.
TrainDraw ==
    /\ train_pc = "draw"
    /\ \A r \in Runs : run[r].pc # "loop"
    /\ \E t \in randint(0, timesteps, BatchSize) : train_t' = t
    /\ train_pc' = "step"
    /\ run' = [r \in Runs |-> NoRun]
    /\ UNCHANGED << timesteps, config, model >>

\* a training iteration, second half: optimizer.step() leaves the model some
\* other predictor; sampling, if any, follows before the next iteration
TrainOptimize ==
    /\ train_pc = "step"
    /\ model' \in TrainableModels(timesteps)
    /\ train_pc' = "draw"
    /\ UNCHANGED << timesteps, config, run, train_t >>

\* sampling runs sharing one schedule, interleaved in any order
Next == \E r \in Runs : Sample(r) \/ Iterate(r)

Spec == Init /\ [][Next]_vars

\* train.py: training steps, and between them sampling runs one at a time
TrainNext == TrainDraw \/ TrainOptimize \/ Sample(1) \/ Iterate(1)

\* model = Unet(...); optimizer = Adam(model.parameters(), lr=1e-3)
TrainInit == Init /\ model \in TrainableModels(timesteps)

TrainSpec == TrainInit /\ [][TrainNext]_vars

\* ------------------------------------------------------- claims: helpers
\* whether every value of tensor x is finite and within [-1, 1]
InUnitRange(x) == \A k \in DOMAIN x : IsFin(x[k]) /\ x[k].v >= -Scale /\ x[k].v <= Scale

\* whether some value of tensor x is NaN
HasNaN(x) == \E k \in DOMAIN x : IsNaN(x[k])

\* the state an iteration started from: the latest element of the trajectory
StateBefore(st, k) == IF k = 1 THEN st.noise0 ELSE st.steps[k - 1].out

\* whether run st has ended, by returning or by raising
Ended(st) == st.pc \in {"returned", "raised"}

\* whether no iteration of run st failed
NoStepFailed(st) == \A k \in DOMAIN st.steps : ~st.steps[k].raised

\* the noise draws of a run's iterations, in order
DrawsOf(st) == [k \in DOMAIN st.steps |-> st.steps[k].draws]

\* ------------------------------------------------------------------- C1
\* whether run st returned timesteps + 1 elements, element 0 the initial noise
\* and the last one the output of the step with i = 0
ReturnedFullTrajectory(st) ==
    /\ st.pc = "returned"
    /\ Len(st.result) = config.timesteps + 1
    /\ st.result[1] = st.noise0
    /\ Len(st.steps) >= 1
    /\ st.steps[Len(st.steps)].i = 0
    /\ st.result[Len(st.result)] = st.steps[Len(st.steps)].out

\* C1 as stated: with any model whose calls all succeed, a run that has ended
\* has returned exactly timesteps + 1 elements, element 0 the initial noise and
\* the last one the output of the step with i = 0.
C1_Original ==
    \A r \in Runs :
        (Ended(run[r]) /\ NoStepFailed(run[r])) => ReturnedFullTrajectory(run[r])

\* C1 as amended: that holds for a model that has at least one parameter; a
\* model without parameters, or without a parameters attribute, makes the run
\* raise before the initial noise is drawn and before any model call.
C1_TrajectoryLength ==
    \A r \in Runs :
        /\ run[r].pc = "returned" => ReturnedFullTrajectory(run[r])
        /\ (model.params = "some" /\ Ended(run[r]) /\ NoStepFailed(run[r]))
              => ReturnedFullTrajectory(run[r])
        /\ (model.params # "some" /\ run[r].pc # "idle") =>
              /\ run[r].pc = "raised"
              /\ run[r].exc.type \in {"StopIteration", "AttributeError"}
              /\ run[r].noise0 = << >>
              /\ run[r].steps = << >>
              /\ run[r].result = << >>

C1_Witness ==
    \E r \in Runs :
        /\ run[r].pc = "returned"
        /\ config.timesteps = MaxT
        /\ Len(run[r].result) = MaxT + 1
        /\ run[r].result[1] # run[r].result[MaxT + 1]

\* ------------------------------------------------------------------- C2
\* C2 as stated: every element of a returned trajectory, the initial noise
\* included, has all its values within [-1, 1].
C2_Original ==
    \A r \in Runs :
        run[r].pc = "returned" =>
            \A k \in DOMAIN run[r].result : InUnitRange(run[r].result[k])

\* C2 as amended: element 0 of a returned trajectory is the initial noise as
\* drawn, not clipped; every later element has each value within [-1, 1] or NaN,
\* and a NaN is there only if a model call of the run returned a NaN.
C2_ClippedAfterInitial ==
    \A r \in Runs :
        run[r].pc = "returned" =>
            LET res == run[r].result
            IN /\ res[1] = run[r].noise0
               /\ \A k \in 2..Len(res) :
                    /\ \A j \in DOMAIN res[k] :
                         \/ IsNaN(res[k][j])
                         \/ InUnitRange(<< res[k][j] >>)
                    /\ HasNaN(res[k]) =>
                         \E n \in 1..(k - 1) :
                            HasNaN(run[r].steps[n].calls[1].ret.value)

C2_Witness ==
    \E r \in Runs :
        /\ run[r].pc = "returned"
        /\ ~InUnitRange(run[r].result[1])
        /\ \E k \in DOMAIN run[r].steps :
              /\ ~InUnitRange(run[r].steps[k].raw)
              /\ InUnitRange(run[r].steps[k].out)

\* ------------------------------------------------------------------- C3
\* C3: a step draws noise only if its index is above 0; a step with i = 0 draws
\* nothing, returns the posterior mean, and its outcome is the same whatever the
\* random number generator would yield; a step with i > 0 that completes draws
\* exactly one noise tensor.
C3_NoiseIffNonTerminal ==
    \A r \in Runs :
        /\ \A k \in DOMAIN run[r].steps :
              LET st == run[r].steps[k]
              IN /\ st.i = 0 => st.draws = << >>
                 /\ (st.i = 0 /\ ~st.raised) =>
                       st.raw = model_mean(st.x, st.calls[1].ret.value, st.t, config)
                 /\ (st.i > 0 /\ ~st.raised) => Len(st.draws) = 1
        /\ (run[r].pc = "loop" /\ LoopIndices(config.timesteps)[run[r].k] = 0) =>
              \A s1, s2 \in Seeds :
                 p_sample_loop_iter(run[r], model, config, s1)
                    = p_sample_loop_iter(run[r], model, config, s2)

C3_Witness ==
    \E r \in Runs :
        /\ run[r].pc = "returned"
        /\ Len(run[r].steps) >= 2
        /\ run[r].steps[1].draws # << >>
        /\ run[r].steps[Len(run[r].steps)].draws = << >>
        /\ run[r].steps[Len(run[r].steps)].i = 0

\* ------------------------------------------------------------------- C4
\* whether the iterations run st executed are those of indices timesteps-1,
\* timesteps-2, ... in that order, each calling the model exactly once with the
\* batch filled with its index, which is also its t_index
OneCallPerIndex(st) ==
    \A k \in DOMAIN st.steps :
        /\ st.steps[k].i = config.timesteps - k
        /\ st.steps[k].t_index = st.steps[k].i
        /\ Len(st.steps[k].calls) = 1
        /\ st.steps[k].calls[1].t = Full(st.b, st.steps[k].i)

\* C4 as stated: when no model call fails, a run that has ended has executed
\* exactly timesteps iterations, of indices timesteps-1, ..., 0 in that order,
\* each with one model call on the batch filled with its index.
C4_Original ==
    \A r \in Runs :
        (Ended(run[r]) /\ NoStepFailed(run[r])) =>
            /\ Len(run[r].steps) = config.timesteps
            /\ OneCallPerIndex(run[r])

\* C4 as amended: that holds when the model has at least one parameter (and
\* the iterations executed before a failure are a prefix of that order); with a
\* model without parameters no iteration is executed and the model is never
\* called.
C4_OneCallPerIndex ==
    \A r \in Runs :
        /\ OneCallPerIndex(run[r])
        /\ run[r].pc = "returned" => Len(run[r].steps) = config.timesteps
        /\ run[r].pc = "loop" => Len(run[r].steps) = run[r].k - 1
        /\ (model.params = "some" /\ Ended(run[r]) /\ NoStepFailed(run[r]))
              => Len(run[r].steps) = config.timesteps
        /\ model.params # "some" => run[r].steps = << >>

C4_Witness ==
    \E r \in Runs :
        /\ run[r].pc = "returned"
        /\ config.timesteps = MaxT
        /\ Len(run[r].steps) = MaxT
        /\ run[r].steps[1].calls[1].t = Full(BatchSize, MaxT - 1)
        /\ run[r].steps[MaxT].calls[1].t = Full(BatchSize, 0)

\* ------------------------------------------------------------------- C5
\* whether the model call of a step failed in the sense of C5: it raised, or its
\* prediction has another shape than the input or a non-finite value
ModelCallFailed(st) ==
    LET ret == st.calls[1].ret
    IN \/ ret.raised
       \/ Len(ret.value) # Len(st.x)
       \/ \E j \in DOMAIN ret.value : ~IsFin(ret.value[j])

\* C5 as stated: every such failure reaches the caller as a SamplingFailure
\* that wraps the cause.
C5_Original ==
    \A r \in Runs :
        \A k \in DOMAIN run[r].steps :
            ModelCallFailed(run[r].steps[k]) =>
                /\ run[r].pc = "raised"
                /\ run[r].exc.type = "SamplingFailure"
                /\ run[r].exc.cause # "none"

\* C5 as amended: an exception of the model call (raised by the model, or the
\* RuntimeError of a prediction whose shape does not broadcast) reaches the
\* caller as that same exception, unwrapped; a prediction with NaN or infinite
\* values, or of a broadcastable other shape, raises nothing.
C5_PropagatesUnwrapped ==
    \A r \in Runs :
        /\ (run[r].pc = "raised" /\ run[r].steps # << >>) =>
              LET last == run[r].steps[Len(run[r].steps)]
                  ret == last.calls[1].ret
              IN /\ last.raised
                 /\ run[r].exc = last.exc
                 /\ run[r].exc.cause = "none"
                 /\ ret.raised => run[r].exc = ret.exc
                 /\ ~ret.raised =>
                       /\ run[r].exc.type = "RuntimeError"
                       /\ ~Broadcastable(Len(last.x), Len(ret.value))
        /\ \A k \in DOMAIN run[r].steps :
              LET st == run[r].steps[k]
                  ret == st.calls[1].ret
              IN (~ret.raised /\ Broadcastable(Len(st.x), Len(ret.value)))
                    => ~st.raised

C5_Witness ==
    \E r \in Runs :
        /\ run[r].pc = "raised"
        /\ run[r].exc.type = "RuntimeError"
        /\ Len(run[r].steps) >= 2

\* ------------------------------------------------------------------- C6
\* C6 as stated: a step whose model call fails (it raises, or its prediction
\* has another shape than the input or a non-finite value) is the last one of
\* its run, no index is executed twice, and the run ends raised with no
\* trajectory for the caller, neither complete nor partial.
C6_Original ==
    \A r \in Runs :
        /\ \A k \in DOMAIN run[r].steps :
              ModelCallFailed(run[r].steps[k]) =>
                 /\ k = Len(run[r].steps)
                 /\ run[r].pc = "raised"
                 /\ run[r].result = << >>
        /\ \A k1, k2 \in DOMAIN run[r].steps :
              run[r].steps[k1].i = run[r].steps[k2].i => k1 = k2

\* C6 as amended: a step stops the run exactly when its model call raises or
\* its prediction's shape does not broadcast.  Such a step is the last one of
\* its run, no index is executed twice, and the caller then holds no trajectory,
\* neither complete nor partial.  A prediction with a NaN or infinite value, or
\* of a broadcastable other shape, stops nothing: the step appends its element,
\* the later steps are executed and a run that returns hands over all
\* timesteps + 1 elements.
C6_FailureStopsRun ==
    \A r \in Runs :
        /\ \A k \in DOMAIN run[r].steps :
              LET st == run[r].steps[k]
                  ret == st.calls[1].ret
              IN /\ st.raised <=>
                       (ret.raised \/ ~Broadcastable(Len(st.x), Len(ret.value)))
                 /\ st.raised =>
                       /\ k = Len(run[r].steps)
                       /\ run[r].pc = "raised"
                 /\ ~st.raised =>
                       /\ st.out # << >>
                       /\ (k < Len(LoopIndices(config.timesteps))
                           /\ run[r].pc = "returned") => k < Len(run[r].steps)
        /\ \A k1, k2 \in DOMAIN run[r].steps :
              run[r].steps[k1].i = run[r].steps[k2].i => k1 = k2
        /\ run[r].pc = "raised" =>
              /\ run[r].steps # << >> => run[r].steps[Len(run[r].steps)].raised
              /\ run[r].result = << >>
              /\ run[r].imgs = << >>
        /\ run[r].pc = "returned" =>
              /\ Len(run[r].steps) = config.timesteps
              /\ Len(run[r].result) = config.timesteps + 1

C6_Witness ==
    \E r \in Runs :
        /\ run[r].pc = "raised"
        /\ Len(run[r].steps) >= 2
        /\ run[r].steps[1].out # << >>
        /\ run[r].result = << >>

\* ------------------------------------------------------------------- C7
\* C7: every timestep index handed to the model or used to gather from the
\* schedule is in 0..timesteps-1: a sampling batch is filled with its loop index,
\* a training batch is drawn within the horizon the schedule was built with.
C7_TimestepInRange ==
    /\ config.timesteps = timesteps
    /\ \A r \in Runs :
          \A k \in DOMAIN run[r].steps :
              LET st == run[r].steps[k]
              IN /\ st.i \in 0..(config.timesteps - 1)
                 /\ \A j \in DOMAIN st.t : st.t[j] = st.i
                 /\ \A c \in DOMAIN st.calls :
                       \A j \in DOMAIN st.calls[c].t :
                          st.calls[c].t[j] \in 0..(config.timesteps - 1)
    /\ \A j \in DOMAIN train_t : train_t[j] \in 0..(config.timesteps - 1)

C7_Witness ==
    /\ timesteps = MaxT
    /\ train_t # << >>
    /\ train_t[1] = MaxT - 1
    /\ train_t[BatchSize] = 0
    /\ run[1].pc = "returned"
    /\ Len(run[1].steps) = MaxT

\* ------------------------------------------------------------------- C8
\* C8: two runs on the same schedule, shape and model that drew the same
\* initial noise and, over the same number of iterations, the same per-step
\* noise hold the same trajectory, element by element, and the same outcome.
C8_Deterministic ==
    \A r1, r2 \in Runs :
        (/\ run[r1].pc # "idle"
         /\ run[r2].pc # "idle"
         /\ run[r1].noise0 = run[r2].noise0
         /\ DrawsOf(run[r1]) = DrawsOf(run[r2]))
        => /\ run[r1].imgs = run[r2].imgs
           /\ run[r1].result = run[r2].result
           /\ run[r1].pc = run[r2].pc

C8_Witness ==
    /\ model.kind = "zero"
    /\ config.timesteps = MaxT
    /\ run[1].pc = "returned"
    /\ run[2].pc = "returned"
    /\ run[1].noise0 = run[2].noise0
    /\ DrawsOf(run[1]) = DrawsOf(run[2])
    /\ Len(run[1].result) = MaxT + 1

\* ------------------------------------------------------------------- C9
\* C9: whatever the sampling runs have done, the schedule holds the values it
\* was constructed with.
C9_ScheduleUnchanged == config = create_diffusion_config(timesteps)

C9_Witness ==
    /\ run[1].pc = "returned"
    /\ run[2].pc = "loop"
    /\ Len(run[2].steps) >= 1
    /\ config.timesteps = MaxT

\* ------------------------------------------------------------------ C10
\* the element the claim expects iteration k of run st to append, from the state
\* before it, the model's prediction and the step's noise draw
C10_Expected(st, k) ==
    LET step == st.steps[k]
        i == config.timesteps - k
        x == StateBefore(st, k)
        pred == step.calls[1].ret.value
        Mean(j) ==
            FMul(config.sqrt_recip_alphas[i + 1],
                 FSub(x[j],
                      FDiv(FMul(config.betas[i + 1], At(pred, j)),
                           config.sqrt_one_minus_alphas_cumprod[i + 1])))
        Next_(j) ==
            IF i = 0 THEN Mean(j)
            ELSE FAdd(Mean(j),
                      FMul(FSqrt(config.posterior_variance[i + 1]),
                           step.draws[1][j]))
    IN [j \in DOMAIN x |-> FClip(Next_(j), -Scale, Scale)]

\* C10: each iteration that completes appends clip(m) when i = 0 and
\* clip(m + sqrt(posterior_variance[i]) * z) when i > 0, with m the posterior
\* mean computed at index i from the state before the iteration and the model's
\* prediction for it, and that element is the state of the next iteration.
C10_StepValue ==
    \A r \in Runs :
        \A k \in DOMAIN run[r].steps :
            LET st == run[r].steps[k]
            IN ~st.raised =>
                  /\ st.x = StateBefore(run[r], k)
                  /\ st.calls[1].x = st.x
                  /\ st.calls[1].ret = ModelApply(model, st.x, Full(run[r].b, st.i))
                  /\ st.out = C10_Expected(run[r], k)
                  /\ run[r].pc # "raised" => run[r].imgs[k + 1] = st.out
                  /\ (k = Len(run[r].steps) /\ run[r].pc = "loop") =>
                        run[r].img = st.out

C10_Witness ==
    \E r \in Runs :
        /\ run[r].pc = "returned"
        /\ model.kind = "echo"
        /\ config.timesteps = MaxT
        /\ \E k \in DOMAIN run[r].steps :
              /\ run[r].steps[k].i > 0
              /\ run[r].steps[k].out = run[r].steps[k].raw
              /\ \E j \in DOMAIN run[r].steps[k].out :
                    run[r].steps[k].out[j].v # 0

====
